---- MODULE Spec2Model ----
(***************************************************************************)
(* A model of the card-catalogue reconciliation code of                    *)
(* PokemonTCGPDatabase: the canonicalizer (PokemonCard.from_json), the     *)
(* scan / merge pass (CardDataScrapper.main), the enrichment pass          *)
(* (LimitlessScrapper) and the two sync builders (SyncGenerator,           *)
(* SyncPreperation).                                                       *)
(*                                                                         *)
(* A Python str is a sequence of one-character strings, so that strip,     *)
(* upper, replace, split, zfill and isdigit are computed as Python         *)
(* computes them.  A dict is a function whose DOMAIN is its key set.       *)
(***************************************************************************)
EXTENDS Integers, Sequences, FiniteSets, TLC

VARIABLES
    obj,          \* the raw record handed to PokemonCard.from_json
    card,         \* the PokemonCard it returned (NotRun before the call)
    ref_items,    \* the reference entries handed to the sync builders
    sync,         \* result of SyncGenerator.build_sync_map
    mapping,      \* result of SyncPreperation.build_sync_mapping
    override,     \* OVERRIDE_EXISTING_DATA
    cards,        \* release/cards.json: the persisted Catalog, a list of card dicts
    missing,      \* missing_data.json: the persisted MissingSet
    pass,         \* the script that ran last: "none", "merge", "scan", "enrich"
    raw_cards,    \* CardDataScrapper.main: the batch fetched from the primary feed
    serialized,   \* merge_cards: its argument new_cards
    existing_map, \* merge_cards: its argument existing
    merged_map,   \* merge_cards: the dict it returned
    updates,      \* LimitlessScrapper: the updates built from the lookups
    updated_ids,  \* LimitlessScrapper: the update keys that matched a card
    upstream,     \* main.py: what the fetch collaborators answer during the runs
    runs          \* main.py: the number of pipeline runs completed

normVars == <<obj, card>>
syncVars == <<ref_items, sync, mapping>>
storeVars == <<cards, missing>>
scanVars == <<raw_cards, serialized, existing_map, merged_map>>
enrichVars == <<updates, updated_ids>>
runVars == <<upstream, runs>>
vars == <<obj, card, ref_items, sync, mapping, override, cards, missing, pass,
          raw_cards, serialized, existing_map, merged_map, updates, updated_ids,
          upstream, runs>>

\* ------------------------------------------------------------------ strings

\* The outcome of a call: not made yet, ended in an uncaught exception, or
\* returned a value.
NotRun == [status |-> "NotRun"]
Raised == [status |-> "Raised"]
Ok(v) == [status |-> "ok", value |-> v]
IsOk(r) == r.status = "ok"

\* Python's None, where a str is expected
None == <<"None">>

LowerCase == <<"a","b","c","d","e","f","g","h","i","j","k","l","m",
               "n","o","p","q","r","s","t","u","v","w","x","y","z">>
UpperCase == <<"A","B","C","D","E","F","G","H","I","J","K","L","M",
               "N","O","P","Q","R","S","T","U","V","W","X","Y","Z">>
DigitChars == <<"0","1","2","3","4","5","6","7","8","9">>

\* str.upper() / str.lower() on one character
LowerSet == {LowerCase[i] : i \in 1..26}
UpperSet == {UpperCase[i] : i \in 1..26}
DigitSet == {DigitChars[i] : i \in 1..10}
ToUpper == [c \in LowerSet |-> UpperCase[CHOOSE i \in 1..26 : LowerCase[i] = c]]
ToLower == [c \in UpperSet |-> LowerCase[CHOOSE i \in 1..26 : UpperCase[i] = c]]
UpperCh(c) == IF c \in LowerSet THEN ToUpper[c] ELSE c
LowerCh(c) == IF c \in UpperSet THEN ToLower[c] ELSE c

\* str.upper(), str.lower()
upper(s) == [i \in 1..Len(s) |-> UpperCh(s[i])]
lower(s) == [i \in 1..Len(s) |-> LowerCh(s[i])]

IsSpace(c) == c = " "
IsDigitCh(c) == c \in DigitSet

\* str.isdigit(): non-empty and every character a digit
isdigit(s) == Len(s) > 0 /\ \A i \in 1..Len(s) : IsDigitCh(s[i])

\* str.strip()
RECURSIVE lstrip(_)
lstrip(s) == IF Len(s) > 0 /\ IsSpace(s[1]) THEN lstrip(Tail(s)) ELSE s
RECURSIVE rstrip(_)
rstrip(s) ==
    IF Len(s) > 0 /\ IsSpace(s[Len(s)]) THEN rstrip(SubSeq(s, 1, Len(s) - 1)) ELSE s
strip(s) == rstrip(lstrip(s))

\* str.strip("/")
RECURSIVE lstripCh(_, _)
lstripCh(s, c) == IF Len(s) > 0 /\ s[1] = c THEN lstripCh(Tail(s), c) ELSE s
RECURSIVE rstripCh(_, _)
rstripCh(s, c) ==
    IF Len(s) > 0 /\ s[Len(s)] = c THEN rstripCh(SubSeq(s, 1, Len(s) - 1), c) ELSE s

\* str.startswith(p)
startswith(s, p) == Len(s) >= Len(p) /\ SubSeq(s, 1, Len(p)) = p

\* str.replace(old, new): every non-overlapping occurrence, left to right
RECURSIVE replace(_, _, _)
replace(s, old, new) ==
    IF Len(s) = 0 THEN s
    ELSE IF startswith(s, old)
         THEN new \o replace(SubSeq(s, Len(old) + 1, Len(s)), old, new)
         ELSE <<s[1]>> \o replace(Tail(s), old, new)

\* old in s
contains(s, old) == \E i \in 1..Len(s) : startswith(SubSeq(s, i, Len(s)), old)

\* "".join(ch for ch in s if ch.isdigit())
RECURSIVE digitsOf(_)
digitsOf(s) ==
    IF Len(s) = 0 THEN s
    ELSE IF IsDigitCh(s[1]) THEN <<s[1]>> \o digitsOf(Tail(s)) ELSE digitsOf(Tail(s))

\* str.zfill(w) of a string without sign
RECURSIVE zfill(_, _)
zfill(s, w) == IF Len(s) >= w THEN s ELSE zfill(<<"0">> \o s, w)

\* int(s) for a string of digits
ToDigit == [c \in DigitSet |-> (CHOOSE i \in 1..10 : DigitChars[i] = c) - 1]
DigitVal(c) == ToDigit[c]
RECURSIVE int(_)
int(s) == IF Len(s) = 0 THEN 0 ELSE 10 * int(SubSeq(s, 1, Len(s) - 1)) + DigitVal(s[Len(s)])

\* str(n) for n >= 0
RECURSIVE str(_)
str(n) == IF n < 10 THEN <<DigitChars[n + 1]>> ELSE str(n \div 10) \o <<DigitChars[(n % 10) + 1]>>

\* s.find(c): index (from 1) of the first c in s, 0 when there is none
find(s, c) ==
    IF \E i \in 1..Len(s) : s[i] = c
    THEN CHOOSE i \in 1..Len(s) : s[i] = c /\ \A j \in 1..(i - 1) : s[j] # c
    ELSE 0

\* s.split(c): the segments between the separators, empty ones kept
RECURSIVE split(_, _)
split(s, c) ==
    LET h == find(s, c) IN
    IF h = 0 THEN <<s>>
    ELSE <<SubSeq(s, 1, h - 1)>> \o split(SubSeq(s, h + 1, Len(s)), c)

\* s.split(c, 1)[1]: what follows the first separator
afterFirst(s, c) == SubSeq(s, find(s, c) + 1, Len(s))

\* string literals of the source
sPROMO == <<"P","R","O","M","O">>
sPROMOdash == <<"P","R","O","M","O","-">>
sPdash == <<"P","-">>
sP == <<"P">>
sA4B == <<"A","4","B">>
sCards == <<"c","a","r","d","s">>
sEmpty == <<>>
sDash == <<"-">>
sSlash == <<"/">>


sWebp == <<".","w","e","b","p">>
\* the value of POCKETDB_IMAGE_URL, kept as one opaque piece of text
POCKETDB_IMAGE_URL == <<"https://raw.githubusercontent.com/flibustier/pokemon-tcg-exchange/refs/heads/main/public/images/cards-by-set/">>

\* -------------------------------------------------- PokemonCard.from_json

\* lines 50-55: the set-code normalization of the canonicalizer, applied to
\* the stripped raw code
normalize_set(original_set_code) ==
    LET set_code == IF startswith(original_set_code, sPROMOdash)
                    THEN replace(original_set_code, sPROMOdash, sPdash)
                    ELSE original_set_code
    IN upper(set_code)

\* normalize_number padding to two digits
normalize_number_Pad2(num_raw) ==
    LET num_str == strip(num_raw)
        digits == digitsOf(num_str)
    IN IF isdigit(num_str)
       THEN [num_pad |-> zfill(num_str, 2), number_value |-> int(num_str)]
       ELSE [num_pad |-> IF Len(digits) > 0 THEN zfill(digits, 2) ELSE <<"0","0">>,
             number_value |-> IF isdigit(digits) THEN int(digits) ELSE 0]

\* lines 40-48: (num_pad, number_value) of the raw number
normalize_number(num_raw) ==
    LET num_str == strip(num_raw)
        digits == digitsOf(num_str)
    IN IF isdigit(num_str)
       THEN [num_pad |-> zfill(num_str, 3), number_value |-> int(num_str)]
       ELSE [num_pad |-> IF Len(digits) > 0 THEN zfill(digits, 3) ELSE <<"0","0","0">>,
             number_value |-> IF isdigit(digits) THEN int(digits) ELSE 0]

\* derive_series taking the first character whatever the set looks like
derive_series_FirstChar(set_code) ==
    IF Len(set_code) > 0 THEN SubSeq(set_code, 1, 1) ELSE sEmpty

\* lines 57-62
derive_series(set_code) ==
    IF Len(set_code) > 0 /\ contains(set_code, sDash)
    THEN LET parts == split(set_code, "-")
             seg == parts[Len(parts)]
         IN IF Len(seg) > 0 THEN SubSeq(seg, 1, 1) ELSE sEmpty
    ELSE IF Len(set_code) > 0 THEN SubSeq(set_code, 1, 1) ELSE sEmpty

from_json(o) ==
    LET original_set_code == strip(o.set)
        num == normalize_number(o.number)
        set_code == normalize_set(original_set_code)
        name0 == strip(o.name)
    IN [series  |-> derive_series(set_code),
        set     |-> set_code,
        number  |-> num.number_value,
        id      |-> set_code \o sDash \o num.num_pad,
        name    |-> IF contains(name0, sPROMO) THEN replace(name0, sPROMO, sP) ELSE name0,
        rarity  |-> strip(o.rarity),
        image   |-> POCKETDB_IMAGE_URL \o original_set_code \o sSlash \o o.number \o sWebp,
        packs   |-> o.packs,
        element |-> strip(o.element),
        type    |-> strip(o.type),
        isFoil  |-> o.isFoil]

\* ------------------------------------------- SyncGenerator.build_sync_map

\* _URL_NUM_RE.search(url): "/cards/", a non-empty segment without "/",
\* "/", a run of digits that ends the text or is followed by "/".  In the
\* segments of url.split("/") that is: a segment "cards" (any case) that is
\* not the first, then a non-empty segment, then an all-digit segment.
UrlMatches(url) ==
    LET parts == split(url, "/")
    IN {j \in 2..(Len(parts) - 2) :
            /\ lower(parts[j]) = sCards
            /\ Len(parts[j + 1]) > 0
            /\ isdigit(parts[j + 2])}

\* extract_number_from_url: the number, or Raised (ValueError)
extract_number_from_url(url) ==
    IF url = None \/ UrlMatches(url) = {} THEN Raised
    ELSE LET parts == split(url, "/")
             j == CHOOSE k \in UrlMatches(url) : \A m \in UrlMatches(url) : k <= m
         IN Ok(int(parts[j + 2]))

\* extract_number_from_carddef: PK_10_000030_00 -> 3 + 0, or Raised
extract_number_from_carddef(card_def_key) ==
    LET parts == split(card_def_key, "_")
    IN IF Len(parts) < 4 THEN Raised
       ELSE IF ~isdigit(parts[3]) \/ ~isdigit(parts[4]) THEN Raised
       ELSE Ok((int(parts[3]) \div 10) + int(parts[4]))

get_expansion_from_value(v) ==
    LET hyphen == find(v, "-") IN IF hyphen # 0 THEN SubSeq(v, 1, hyphen - 1) ELSE v

normalize_expansion(exp) ==
    LET s == strip(exp)
        up == upper(s)
    IN IF startswith(up, sPROMOdash) THEN sPdash \o afterFirst(up, "-") ELSE up

\* f"{number:03d}"
fmt03d(number) == zfill(str(number), 3)

\* not x, for x a str or None
Falsy(x) == x = None \/ x = sEmpty

\* one turn of the loop of lines 51-86 on the dict built so far
\* (acc is the outcome so far: Raised once an entry raised, else Ok(sync))
SyncStep(acc, item) ==
    IF ~IsOk(acc) THEN Raised
    ELSE IF Falsy(item.cardDefKey) \/ Falsy(item.expansionId) THEN acc
    ELSE
    LET fromUrl == extract_number_from_url(item.url)
        number == IF IsOk(fromUrl) THEN fromUrl
                  ELSE extract_number_from_carddef(item.cardDefKey)
    IN IF ~IsOk(number) THEN Raised
       ELSE
       LET d == acc.value
           key == item.cardDefKey
           normalized_expansion == normalize_expansion(item.expansionId)
           candidate_value == normalized_expansion \o sDash \o fmt03d(number.value)
       IN IF key \notin DOMAIN d
          THEN Ok([k \in DOMAIN d \cup {key} |-> IF k = key THEN candidate_value ELSE d[k]])
          ELSE LET existing_expansion == upper(get_expansion_from_value(d[key]))
               IN IF existing_expansion = sA4B /\ normalized_expansion # sA4B
                  THEN Ok([d EXCEPT ![key] = candidate_value])
                  ELSE acc

EmptyDict == <<>>

RECURSIVE SyncLoop(_, _)
SyncLoop(acc, items) ==
    IF Len(items) = 0 THEN acc ELSE SyncLoop(SyncStep(acc, Head(items)), Tail(items))

build_sync_map(items) == SyncLoop(Ok(EmptyDict), items)

\* -------------------------------------------------------- SyncPreperation

\* [p for p in s.split("/") if p]
RECURSIVE nonEmpty(_)
nonEmpty(ps) ==
    IF Len(ps) = 0 THEN ps
    ELSE IF Len(Head(ps)) > 0 THEN <<Head(ps)>> \o nonEmpty(Tail(ps)) ELSE nonEmpty(Tail(ps))

\* parts.index("cards"), 1-based; 0 when the segment is absent
IndexOfCards(ps) ==
    IF \E i \in 1..Len(ps) : ps[i] = sCards
    THEN CHOOSE i \in 1..Len(ps) : ps[i] = sCards /\ \A j \in 1..(i - 1) : ps[j] # sCards
    ELSE 0

\* the first numeric segment, 1-based; 0 when there is none
FirstNumericIndex(ps) ==
    IF \E i \in 1..Len(ps) : isdigit(ps[i])
    THEN CHOOSE i \in 1..Len(ps) : isdigit(ps[i]) /\ \A j \in 1..(i - 1) : ~isdigit(ps[j])
    ELSE 0

\* lines 6-39: the (set_code, number) segments of the url, or Raised
UrlSegments(url) ==
    LET s == rstripCh(lstripCh(strip(url), "/"), "/")
        parts == nonEmpty(split(s, "/"))
        idx == IndexOfCards(parts)
        i == FirstNumericIndex(parts)
        n == Len(parts)
    IN IF n = 0 THEN Raised
       ELSE IF idx # 0 /\ idx + 2 <= n
            THEN Ok([set_code |-> parts[idx + 1], number |-> parts[idx + 2]])
       ELSE IF i > 1
            THEN Ok([set_code |-> parts[i - 1], number |-> parts[i]])
       ELSE IF n >= 2
            THEN Ok([set_code |-> parts[n - 1], number |-> parts[n]])
       ELSE Raised

extract_set_and_number(url) ==
    LET seg == UrlSegments(url)
    IN IF ~IsOk(seg) THEN Raised
       ELSE LET digits == digitsOf(seg.value.number)
                sc0 == upper(seg.value.set_code)
                sc == IF startswith(sc0, sPROMOdash) THEN sPdash \o afterFirst(sc0, "-") ELSE sc0
            IN Ok([set_code |-> sc, padded_num |-> zfill(digits, 3)])

\* MappingStep keeping the id a key already has
MappingStep_FirstWins(acc, item) ==
    IF ~IsOk(acc) THEN Raised
    ELSE IF Falsy(item.cardDefKey) \/ Falsy(item.url) THEN acc
    ELSE LET r == extract_set_and_number(item.url)
             d == acc.value
             key == item.cardDefKey
         IN IF ~IsOk(r) THEN Raised
            ELSE Ok([k \in DOMAIN d \cup {key} |->
                      IF k = key /\ k \notin DOMAIN d
                      THEN r.value.set_code \o sDash \o r.value.padded_num
                      ELSE d[k]])

\* one turn of the loop of lines 55-69 (reference_data a list of dicts that
\* carry their key as cardDefKey)
MappingStep(acc, item) ==
    IF ~IsOk(acc) THEN Raised
    ELSE IF Falsy(item.cardDefKey) \/ Falsy(item.url) THEN acc
    ELSE LET r == extract_set_and_number(item.url)
             d == acc.value
             key == item.cardDefKey
         IN IF ~IsOk(r) THEN Raised
            ELSE Ok([k \in DOMAIN d \cup {key} |->
                      IF k = key THEN r.value.set_code \o sDash \o r.value.padded_num
                      ELSE d[k]])

RECURSIVE MappingLoop(_, _)
MappingLoop(acc, items) ==
    IF Len(items) = 0 THEN acc ELSE MappingLoop(MappingStep(acc, Head(items)), Tail(items))

build_sync_mapping(reference_data) == MappingLoop(Ok(EmptyDict), reference_data)


\* ------------------------------------------------------------ str ordering

\* the characters in code-point order, for Python's comparison of str
CodeOrder == <<" ", "-", ".", "/", "0","1","2","3","4","5","6","7","8","9", ":",
               "A","B","C","D","E","F","G","H","I","J","K","L","M",
               "N","O","P","Q","R","S","T","U","V","W","X","Y","Z", "_",
               "a","b","c","d","e","f","g","h","i","j","k","l","m",
               "n","o","p","q","r","s","t","u","v","w","x","y","z">>
CodePoint == [c \in {CodeOrder[i] : i \in 1..Len(CodeOrder)} |->
                CHOOSE i \in 1..Len(CodeOrder) : CodeOrder[i] = c]
Ord(c) == CodePoint[c]

\* a < b for two str
RECURSIVE StrLess(_, _)
StrLess(a, b) ==
    IF Len(b) = 0 THEN FALSE
    ELSE IF Len(a) = 0 THEN TRUE
    ELSE IF a[1] # b[1] THEN Ord(a[1]) < Ord(b[1])
    ELSE StrLess(Tail(a), Tail(b))

\* sorted(S) for a set of str
RECURSIVE SortedStrs(_)
SortedStrs(S) ==
    IF S = {} THEN <<>>
    ELSE LET m == CHOOSE x \in S : \A y \in S \ {x} : StrLess(x, y)
         IN <<m>> \o SortedStrs(S \ {m})

\* sorted(d.values(), key=lambda x: str(x.get("id", ""))) for a dict whose
\* values carry pairwise different ids
RECURSIVE SortedById(_)
SortedById(S) ==
    IF S = {} THEN <<>>
    ELSE LET m == CHOOSE x \in S : \A y \in S \ {x} : StrLess(x.id, y.id)
         IN <<m>> \o SortedById(S \ {m})

Values(d) == {d[k] : k \in DOMAIN d}
Put(d, k, v) == [x \in DOMAIN d \cup {k} |-> IF x = k THEN v ELSE d[x]]
Range(q) == {q[i] : i \in 1..Len(q)}

\* ----------------------------------------------- CardDataScrapper: merging

\* load_missing_ids (CardDataScrapper): the stripped, non-blank entries
load_missing_ids(stored) == {strip(v) : v \in {w \in stored : strip(w) # sEmpty}}

\* one turn of the loop of load_existing_cards, lines 196-209
LoadStep(result, item) ==
    LET cid == strip(item.id)
        norm_id == upper(replace(cid, sPROMOdash, sPdash))
        item1 == IF item.set # sEmpty
                 THEN [item EXCEPT !.set = upper(replace(item.set, sPROMOdash, sPdash))]
                 ELSE item
        item2 == IF norm_id # cid THEN [item1 EXCEPT !.id = norm_id] ELSE item1
    IN IF cid = sEmpty THEN result ELSE Put(result, norm_id, item2)

RECURSIVE LoadLoop(_, _)
LoadLoop(result, data) ==
    IF Len(data) = 0 THEN result ELSE LoadLoop(LoadStep(result, Head(data)), Tail(data))

load_existing_cards(data) == LoadLoop(EmptyDict, data)

\* MergeStep with the override flag ignored
MergeStep_NoOverride(merged, c, ovr) ==
    LET cid == strip(c.id)
    IN IF cid = sEmpty THEN merged
       ELSE IF cid \notin DOMAIN merged THEN Put(merged, cid, c)
       ELSE merged

\* one turn of the loop of merge_cards, lines 217-222
MergeStep(merged, c, ovr) ==
    LET cid == strip(c.id)
    IN IF cid = sEmpty THEN merged
       ELSE IF ovr \/ cid \notin DOMAIN merged THEN Put(merged, cid, c)
       ELSE merged

RECURSIVE MergeLoop(_, _, _)
MergeLoop(merged, new_cards, ovr) ==
    IF Len(new_cards) = 0 THEN merged
    ELSE MergeLoop(MergeStep(merged, Head(new_cards), ovr), Tail(new_cards), ovr)

\* merge_cards writing into the dict it was handed (merged = existing)
merge_cards_InPlace(existing, new_cards, ovr) ==
    [merged |-> MergeLoop(existing, new_cards, ovr),
     existing |-> MergeLoop(existing, new_cards, ovr)]

\* merge_cards: the dict it returns, and the dict it was handed as that
\* dict is after the call (merged starts as a copy, line 216)
merge_cards(existing, new_cards, ovr) ==
    [merged |-> MergeLoop(existing, new_cards, ovr), existing |-> existing]

\* ------------------------------------------------ CardDataScrapper.main

\* build_extras_lookup, lines 126-139
ExtrasStep(lookup, e) ==
    LET set_code == upper(strip(e.set))
        digits == digitsOf(e.number)
        number_int == IF isdigit(e.number) THEN int(e.number)
                      ELSE IF Len(digits) > 0 THEN int(digits) ELSE 0
    IN Put(lookup, set_code \o sDash \o zfill(str(number_int), 3), e)

RECURSIVE ExtrasLoop(_, _)
ExtrasLoop(lookup, extras) ==
    IF Len(extras) = 0 THEN lookup
    ELSE ExtrasLoop(ExtrasStep(lookup, Head(extras)), Tail(extras))

build_extras_lookup(extras) == ExtrasLoop(EmptyDict, extras)

\* lines 233-237
ApplyFoil(c, foiled_ids) ==
    IF foiled_ids # {} /\ c.id # sEmpty /\ upper(c.id) \in foiled_ids
    THEN [c EXCEPT !.isFoil = TRUE] ELSE c

\* lines 243-253, for one card
ApplyExtra(c, extras_lookup) ==
    LET key == c.set \o sDash \o zfill(str(c.number), 3)
    IN IF key \notin DOMAIN extras_lookup THEN c
       ELSE LET extra == extras_lookup[key]
                c1 == IF ~Falsy(extra.element) THEN [c EXCEPT !.element = extra.element] ELSE c
            IN IF ~Falsy(extra.type) THEN [c1 EXCEPT !.type = extra.type] ELSE c1

\* lines 232-257: card_objs after the foil and extras overrides, from the
\* canonicalized batch of line 230; extras is the outcome of
\* fetch_pocketdb_card_extras (Raised: proceed without)
CardObjs(canonical, foiled_ids, extras) ==
    [i \in 1..Len(canonical) |->
        LET c == ApplyFoil(canonical[i], foiled_ids)
        IN IF IsOk(extras) THEN ApplyExtra(c, build_extras_lookup(extras.value)) ELSE c]

\* lines 260-266
MissingNow(card_objs) ==
    {upper(replace(card_objs[i].id, sPROMOdash, sPdash)) :
        i \in {j \in 1..Len(card_objs) :
                  strip(card_objs[j].type) = sEmpty /\ card_objs[j].id # sEmpty}}

\* ScanMissing saving the newly detected ids alone
ScanMissing_Overwrite(stored, card_objs) ==
    IF MissingNow(card_objs) # {} THEN MissingNow(card_objs) ELSE stored

\* lines 267-270: the MissingSet file after the scan
ScanMissing(stored, card_objs) ==
    LET missing_now == MissingNow(card_objs)
    IN IF missing_now # {} THEN load_missing_ids(stored) \cup missing_now ELSE stored

\* ---------------------------------------------------- LimitlessScrapper

Nothing == [status |-> "None"]

normalize_id_for_cards(cid) == replace(cid, sPROMOdash, sPdash)

\* parse_id, lines 112-133: Ok((set_code, number)) or Nothing
parse_id(card_id) ==
    LET s == strip(card_id)
        parts == split(s, "-")
        promo == Len(parts) >= 3 /\ upper(parts[1]) \in {sP, sPROMO}
        set_code == IF promo THEN parts[1] \o sDash \o parts[2] ELSE parts[1]
        num_part == parts[Len(parts)]
        digits == digitsOf(num_part)
    IN IF s = sEmpty \/ ~contains(s, sDash) THEN Nothing
       ELSE IF isdigit(num_part) THEN Ok([set_code |-> set_code, number |-> int(num_part)])
       ELSE IF digits = sEmpty THEN Nothing
       ELSE Ok([set_code |-> set_code, number |-> int(digits)])

sPokemon == <<"p","o","k","e","m","o","n">>
sTrainer == <<"t","r","a","i","n","e","r">>
sItem == <<"i","t","e","m">>
sFire == <<"f","i","r","e">>

\* lines 153-166: the update entry built from a lookup result
UpdateOf(info) ==
    IF info.main_type = sTrainer /\ ~Falsy(info.subtype)
    THEN [type |-> info.subtype, element |-> None]
    ELSE IF info.main_type = sPokemon
    THEN [type |-> sPokemon, element |-> IF ~Falsy(info.element) THEN info.element ELSE None]
    ELSE [type |-> info.main_type, element |-> None]

\* lines 142-166: updates, from the lookups fetched[cid] (Nothing: the page or
\* its layout is absent); an absent "element" key is element = None
BuildUpdates(missing_ids, fetched) ==
    LET keys == {cid \in Range(missing_ids) : IsOk(parse_id(cid)) /\ IsOk(fetched[cid])}
    IN [cid \in keys |-> UpdateOf(fetched[cid].value)]

\* line 183: id -> index, the last card with an id wins
IdToIndex(cs) ==
    [k \in {cs[i].id : i \in 1..Len(cs)} |->
        CHOOSE i \in 1..Len(cs) : cs[i].id = k /\ \A j \in (i + 1)..Len(cs) : cs[j].id # k]

\* Lookup trying the normalized id before the exact one
Lookup_NormalizedFirst(id_to_index, cid) ==
    IF normalize_id_for_cards(cid) \in DOMAIN id_to_index
    THEN id_to_index[normalize_id_for_cards(cid)]
    ELSE IF cid \in DOMAIN id_to_index THEN id_to_index[cid]
    ELSE 0

\* lines 186-189: the index the update key finds, 0 when it finds none
Lookup(id_to_index, cid) ==
    IF cid \in DOMAIN id_to_index THEN id_to_index[cid]
    ELSE IF normalize_id_for_cards(cid) \in DOMAIN id_to_index
         THEN id_to_index[normalize_id_for_cards(cid)]
    ELSE 0

\* Patch writing the element whether or not the update carries one
Patch_ClearElement(c, change) ==
    [c EXCEPT !.type = change.type, !.element = change.element]

\* lines 192-196
Patch(c, change) ==
    LET c1 == [c EXCEPT !.type = change.type]
    IN IF change.element # None THEN [c1 EXCEPT !.element = change.element] ELSE c1

\* lines 184-198, over the update keys in the order of updates.items()
RECURSIVE ApplyLoop(_, _, _, _)
ApplyLoop(st, order, upd, id_to_index) ==
    IF Len(order) = 0 THEN st
    ELSE LET cid == Head(order)
             idx == Lookup(id_to_index, cid)
             st1 == IF cid \notin DOMAIN upd \/ idx = 0 THEN st
                    ELSE [cards |-> [st.cards EXCEPT ![idx] = Patch(st.cards[idx], upd[cid])],
                          updated_ids |-> st.updated_ids \cup {cid}]
         IN ApplyLoop(st1, Tail(order), upd, id_to_index)

\* lines 180-198: the cards and updated_ids after the updates are applied
ApplyUpdates(cs, missing_ids, upd) ==
    IF Len(cs) = 0 THEN [cards |-> cs, updated_ids |-> {}]
    ELSE ApplyLoop([cards |-> cs, updated_ids |-> {}], missing_ids, upd, IdToIndex(cs))

\* lines 138-217, for a non-empty MissingSet ms: what the script leaves on
\* disk, with its updates and updated_ids; fetched[cid] is the answer of
\* fetch_card_type_info for the (set_code, number) that parse_id(cid) gives
EnrichResult(cs, ms, fetched) ==
    LET missing_ids == SortedStrs(ms)
        upd == BuildUpdates(missing_ids, fetched)
        st == ApplyUpdates(cs, missing_ids, upd)
    IN [cards |-> st.cards,
        missing |-> {cid \in ms : cid \notin st.updated_ids},
        updates |-> upd,
        updated_ids |-> st.updated_ids]

\* ------------------------------------------------------------------ inputs

MaxTokens == 3      \* a raw set code is at most this many tokens long

spromodash == <<"p","r","o","m","o","-">>
SetTokens == {sPROMOdash, spromodash, sPdash, <<"A">>, <<"a">>, <<"1">>, <<" ">>}

RECURSIVE TokenStrings(_)
TokenStrings(n) ==
    IF n = 0 THEN {sEmpty}
    ELSE LET shorter == TokenStrings(n - 1)
         IN shorter \cup {t \o s : t \in SetTokens, s \in shorter}

RawSetCodes == TokenStrings(MaxTokens)

RawNumbers == {<<"7">>, <<"0","0","7">>, <<"0","0","0","7">>, <<"1","2","3","4">>,
               <<"1","2","a">>, <<" ","7"," ">>, <<"x">>, sEmpty}

sMew == <<"M","e","w">>
sC == <<"C">>
sPack == <<"p","a","c","k">>

\* a raw record of the primary feed
Raw(set_code, number, type_val) ==
    [set |-> set_code, number |-> number, name |-> sMew, rarity |-> sC,
     packs |-> <<sPack>>, element |-> sEmpty, type |-> type_val, isFoil |-> FALSE]

RawRecords == {Raw(s, n, sEmpty) : s \in RawSetCodes, n \in RawNumbers}

sCardDefKey == <<"P","K","_","1","0","_","0","0","0","0","7","0","_","0","0">>
sUrlCards == <<"/","c","a","r","d","s","/">>

\* the reference entry that names the card of raw record o
ItemOf(o) ==
    [cardDefKey |-> sCardDefKey, expansionId |-> o.set,
     url |-> sUrlCards \o o.set \o sSlash \o o.number]

\* reference entries for the sync builders
MaxItems == 3       \* a batch of reference entries is at most this long

sK1 == <<"P","K","_","1","0","_","0","0","0","1","0","0","_","0","0">>
sK2 == <<"P","K","_","2","0","_","0","0","0","2","0","0","_","0","1">>
sKbad == <<"P","K","_","9">>
sA1 == <<"A","1">>
sA4b == <<"A","4","b">>
sA4BX == <<"A","4","B","-","X">>
sUrlA1 == <<"h","/","c","a","r","d","s","/","A","1","/","1","0">>
sUrlA4b == <<"h","/","c","a","r","d","s","/","A","4","b","/","1","1","/">>
sUrlA4BX == <<"h","/","c","a","r","d","s","/","A","4","B","-","X","/","1","2">>
sUrlPromo == <<"h","/","c","a","r","d","s","/","P","R","O","M","O","-","A","/","x","7">>
sUrlA4b10 == <<"h","/","c","a","r","d","s","/","A","4","b","/","1","0">>

Item(k, e, u) == [cardDefKey |-> k, expansionId |-> e, url |-> u]

RefPool ==
    {Item(sK1, sA1, sUrlA1), Item(sK1, sA4b, sUrlA4b), Item(sK1, sA4BX, sUrlA4BX),
     Item(sK2, sA4b, sUrlA4b), Item(sK2, sPROMOdash \o <<"A">>, sUrlPromo),
     Item(sK1, None, sUrlA1), Item(sKbad, sA1, None), Item(sK2, sA4b, <<"7">>),
     Item(sK1, sA4b, sUrlA4b10)}

RECURSIVE Batches(_, _)
Batches(pool, n) ==
    IF n = 0 THEN {<<>>}
    ELSE LET shorter == Batches(pool, n - 1)
         IN shorter \cup {<<x>> \o b : x \in pool, b \in shorter}

\* inputs of merge_cards on its own
MaxIncoming == 2    \* an incoming batch of merge_cards is at most this long

sPROMOA == sPROMOdash \o <<"A">>
spromoa == spromodash \o <<"a">>
s7 == <<"7">>
s8 == <<"8">>
sA1007 == <<"A","1","-","0","0","7">>
sA1008 == <<"A","1","-","0","0","8">>
sPROMOA007 == <<"P","R","O","M","O","-","A","-","0","0","7">>
sPA007 == <<"P","-","A","-","0","0","7">>

MergePool ==
    {from_json(Raw(sA1, s7, sEmpty)), from_json(Raw(sA1, s7, sPokemon)),
     from_json(Raw(sA1, s8, sEmpty)), from_json(Raw(sA1, s8, sItem)),
     [from_json(Raw(sA1, s7, sTrainer)) EXCEPT !.id = sEmpty]}

ExistingDicts ==
    {d \in UNION {[K -> {c \in MergePool : c.id # sEmpty}] : K \in SUBSET {sA1007, sA1008}} :
        \A k \in DOMAIN d : d[k].id = k}

\* inputs of the pipeline
MaxBatch == 1       \* a fetched batch of raw records is at most this long

PipelineRaw == {Raw(sPROMOA, s7, sEmpty), Raw(spromoa, s7, sEmpty), Raw(sA1, s7, sEmpty)}

Extra(set_code, number, element, type_val) ==
    [set |-> set_code, number |-> number, element |-> element, type |-> type_val]

\* a feed of one set whose card numbers run past three digits
s200 == <<"2","0","0">>
s999 == <<"9","9","9">>
s1234 == <<"1","2","3","4">>
NumberedRaw == {Raw(sA1, n, sEmpty) : n \in {s7, s200, s999, s1234}}
                  \cup {Raw(sPROMOA, s7, sEmpty)}

\* from_json on the raw records of the feed, and the batches fetched from it
Canonical == [r \in PipelineRaw \cup NumberedRaw |-> from_json(r)]
RawBatches == Batches(PipelineRaw, MaxBatch)
NumberedBatches == Batches(NumberedRaw, MaxBatch)

\* outcomes of fetch_pocketdb_card_extras
ExtrasInputs == {Raised, Ok(<<Extra(<<"a","1">>, s7, sFire, sPokemon)>>)}

\* contents of FoiledCards.txt as load_foiled_ids returns them
FoiledInputs == {{sA1007}}

Info(main_type, subtype, element) ==
    [main_type |-> main_type, subtype |-> subtype, element |-> element]

\* outcomes of fetch_card_type_info
FetchResults ==
    {Nothing, Ok(Info(sPokemon, None, sFire)), Ok(Info(sTrainer, sItem, None))}

\* unchanged upstream data: the batch of the primary feed, FoiledCards.txt,
\* the outcome of the extras fetch, and the answer of fetch_card_type_info
\* for each id a MissingSet can hold (the ids parse to different
\* (set_code, number) pairs, so a function of the id is a function of the
\* arguments of the lookup)
MaxRuns == 2        \* the pipeline is run at most this many times

LookupIds == {sPA007, sPROMOA007, sA1007}
Upstreams ==
    {[raw |-> r, foiled_ids |-> f, extras |-> e, fetched |-> h] :
        r \in RawBatches, f \in FoiledInputs, e \in ExtrasInputs,
        h \in [LookupIds -> FetchResults]}

\* a Catalog persisted before the first pass of the run: entries written
\* under the older PROMO- naming, and an entry already enriched
LegacyCard == [from_json(Raw(sPROMOA, s7, sEmpty)) EXCEPT !.id = sPROMOA007, !.set = sPROMOA]
InitCatalogs ==
    {SortedById(S) : S \in SUBSET {LegacyCard, ApplyFoil(from_json(Raw(sA1, s7, sPokemon)), {sA1007})}}
InitMissing == SUBSET {sPROMOA007, sPA007}

\* inputs of load_existing_cards on its own: cards.json as an earlier version
\* of the scripts, or a hand edit, left it
MaxStored == 3      \* a stored cards.json is at most this many entries long

sa1 == <<"a","1">>
sa1007 == <<"a","1","-","0","0","7">>
spromoa007 == <<"p","r","o","m","o","-","a","-","0","0","7">>
sPA == <<"P","-","A">>
sXPROMOA == <<"X">> \o sPROMOA

\* a stored entry: the card from_json makes of (set_code, "7"), its id and
\* set as stored
StoredEntry(set_code, id, stored_set) ==
    [from_json(Raw(set_code, s7, sEmpty)) EXCEPT !.id = id, !.set = stored_set]

StoredPool ==
    {from_json(Raw(sA1, s7, sEmpty)), from_json(Raw(sPROMOA, s7, sEmpty)),
     from_json(Raw(sXPROMOA, s7, sEmpty)),
     StoredEntry(sA1, sa1007, sa1), StoredEntry(sPROMOA, sPROMOA007, sPROMOA),
     StoredEntry(sPROMOA, spromoa007, spromoa),
     StoredEntry(sA1, sEmpty, sA1), StoredEntry(sA1, sA1008, sEmpty)}

StoredLists ==
    {SortedById(S) : S \in {T \in SUBSET StoredPool : Cardinality(T) <= MaxStored}}

\* ----------------------------------------------------------------- actions

\* load_existing_cards, called on its own
LoadExisting ==
    /\ pass = "none"
    /\ existing_map' = load_existing_cards(cards)
    /\ pass' = "load"
    /\ UNCHANGED <<normVars, syncVars, storeVars, enrichVars, runVars, override,
                   raw_cards, serialized, merged_map>>

\* merge_cards, called on its own
MergeCards ==
    /\ pass = "none"
    /\ LET r == merge_cards(existing_map, serialized, override)
       IN /\ merged_map' = r.merged
          /\ existing_map' = r.existing
    /\ pass' = "merge"
    /\ UNCHANGED <<normVars, syncVars, storeVars, enrichVars, runVars, override, raw_cards, serialized>>

\* CardDataScrapper.main on the canonicalized batch of line 230: the
\* Catalog and the MissingSet it leaves on disk
ScanResult(cs, ms, ovr, canonical, foiled_ids, extras) ==
    LET card_objs == CardObjs(canonical, foiled_ids, extras)
        r == merge_cards(load_existing_cards(cs), card_objs, ovr)
    IN [cards |-> SortedById(Values(r.merged)),
        missing |-> ScanMissing(ms, card_objs)]

\* CardDataScrapper.main: canonicalize the fetched batch, record the ids
\* that lack a type, merge into the persisted Catalog and save it sorted
Scan(batches) ==
    \E raw \in batches, foiled_ids \in FoiledInputs, extras \in ExtrasInputs :
        LET r == ScanResult(cards, missing, override,
                            [i \in 1..Len(raw) |-> Canonical[raw[i]]], foiled_ids, extras)
        IN /\ raw_cards' = raw
           /\ missing' = r.missing
           /\ cards' = r.cards
           /\ UNCHANGED <<serialized, existing_map, merged_map>>
           /\ pass' = "scan"
           /\ updates' = EmptyDict
           /\ updated_ids' = {}
           /\ UNCHANGED <<normVars, syncVars, runVars, override>>

ScanPass == Scan(RawBatches)

\* CardDataScrapper.main on the feed with card numbers past three digits
ScanNumbered == Scan(NumberedBatches)

\* LimitlessScrapper: look every missing id up, patch the matched cards,
\* drop the matched ids from the MissingSet
EnrichPass ==
    /\ missing # {}
    /\ \E fetched \in [missing -> FetchResults] :
            LET r == EnrichResult(cards, missing, fetched)
            IN /\ updates' = r.updates
               /\ updated_ids' = r.updated_ids
               /\ cards' = r.cards
               /\ missing' = r.missing
    /\ pass' = "enrich"
    /\ raw_cards' = <<>>
    /\ UNCHANGED <<normVars, syncVars, runVars, override, serialized, existing_map, merged_map>>

\* main.py: one run of the pipeline on the upstream data: CardDataScrapper,
\* then LimitlessScrapper, which leaves both files alone when the MissingSet
\* is empty
PipelineRun ==
    /\ runs < MaxRuns
    /\ LET sc == ScanResult(cards, missing, override,
                            [i \in 1..Len(upstream.raw) |-> Canonical[upstream.raw[i]]],
                            upstream.foiled_ids, upstream.extras)
           en == IF sc.missing # {}
                 THEN EnrichResult(sc.cards, sc.missing, upstream.fetched)
                 ELSE [cards |-> sc.cards, missing |-> sc.missing,
                       updates |-> EmptyDict, updated_ids |-> {}]
       IN /\ cards' = en.cards
          /\ missing' = en.missing
          /\ updates' = en.updates
          /\ updated_ids' = en.updated_ids
    /\ raw_cards' = upstream.raw
    /\ runs' = runs + 1
    /\ pass' = "run"
    /\ UNCHANGED <<normVars, syncVars, override, upstream, serialized, existing_map, merged_map>>

IdleNorm == obj = Raw(sEmpty, sEmpty, sEmpty) /\ card = NotRun
IdleSync == ref_items = <<>> /\ sync = NotRun /\ mapping = NotRun
IdleStore == override = TRUE /\ cards = <<>> /\ missing = {}
IdleScan ==
    /\ raw_cards = <<>> /\ serialized = <<>>
    /\ existing_map = EmptyDict /\ merged_map = EmptyDict
IdleEnrich == updates = EmptyDict /\ updated_ids = {}
IdleRun == upstream = NotRun /\ runs = 0

FromJson ==
    /\ card = NotRun
    /\ card' = Ok(from_json(obj))
    /\ UNCHANGED <<obj, syncVars, storeVars, scanVars, enrichVars, runVars, override, pass>>

BuildSyncMap ==
    /\ sync = NotRun
    /\ sync' = build_sync_map(ref_items)
    /\ UNCHANGED <<normVars, ref_items, mapping, storeVars, scanVars, enrichVars, runVars, override, pass>>

BuildSyncMapping ==
    /\ mapping = NotRun
    /\ mapping' = build_sync_mapping(ref_items)
    /\ UNCHANGED <<normVars, ref_items, sync, storeVars, scanVars, enrichVars, runVars, override, pass>>

\* The canonicalizer and both sync builders on one (set, number) input.
InitNorm ==
    /\ obj \in RawRecords
    /\ card = NotRun
    /\ ref_items = <<ItemOf(obj)>>
    /\ sync = NotRun
    /\ mapping = NotRun
    /\ IdleStore /\ IdleScan /\ IdleEnrich /\ IdleRun /\ pass = "none"

NextNorm == FromJson \/ BuildSyncMap \/ BuildSyncMapping

SpecNorm == InitNorm /\ [][NextNorm]_vars

\* The sync builders on a batch of reference entries.
InitSync ==
    /\ IdleNorm
    /\ ref_items \in Batches(RefPool, MaxItems)
    /\ sync = NotRun
    /\ mapping = NotRun
    /\ IdleStore /\ IdleScan /\ IdleEnrich /\ IdleRun /\ pass = "none"

NextSync == BuildSyncMap \/ BuildSyncMapping

SpecSync == InitSync /\ [][NextSync]_vars

\* merge_cards on an existing Catalog, an incoming batch and an override flag.
InitMerge ==
    /\ IdleNorm /\ IdleSync /\ IdleEnrich /\ IdleRun
    /\ cards = <<>> /\ missing = {} /\ raw_cards = <<>>
    /\ override \in BOOLEAN
    /\ existing_map \in ExistingDicts
    /\ serialized \in Batches(MergePool, MaxIncoming)
    /\ merged_map = EmptyDict
    /\ pass = "none"

NextMerge == MergeCards

SpecMerge == InitMerge /\ [][NextMerge]_vars

\* load_existing_cards on a stored cards.json.
InitLoad ==
    /\ IdleNorm /\ IdleSync /\ IdleScan /\ IdleEnrich /\ IdleRun
    /\ override = TRUE
    /\ cards \in StoredLists
    /\ missing = {}
    /\ pass = "none"

NextLoad == LoadExisting

SpecLoad == InitLoad /\ [][NextLoad]_vars

\* Scan passes over a feed with card numbers past three digits, from no
\* cards.json at all.
InitOrder ==
    /\ IdleNorm /\ IdleSync /\ IdleScan /\ IdleEnrich /\ IdleRun
    /\ override \in BOOLEAN
    /\ cards = <<>>
    /\ missing = {}
    /\ pass = "none"

NextOrder == ScanNumbered

SpecOrder == InitOrder /\ [][NextOrder]_vars

\* Consecutive runs of the pipeline on unchanged upstream data, from a
\* previously persisted Catalog and MissingSet.
InitRun ==
    /\ IdleNorm /\ IdleSync /\ IdleScan /\ IdleEnrich
    /\ override \in BOOLEAN
    /\ cards \in InitCatalogs
    /\ missing \in InitMissing
    /\ upstream \in Upstreams
    /\ runs = 0
    /\ pass = "none"

NextRun == PipelineRun

SpecRun == InitRun /\ [][NextRun]_vars

\* The pipeline: scan passes and enrichment passes in any order, from a
\* previously persisted Catalog and MissingSet.
Init ==
    /\ IdleNorm /\ IdleSync /\ IdleScan /\ IdleEnrich /\ IdleRun
    /\ override \in BOOLEAN
    /\ cards \in InitCatalogs
    /\ missing \in InitMissing
    /\ pass = "none"

Next == ScanPass \/ EnrichPass

Spec == Init /\ [][Next]_vars

\* ------------------------------------------------------------------ claims

\* C1: set-code normalization is idempotent: normalizing the set code that
\* from_json produced returns it unchanged.
C1_NormalizeIdempotent ==
    IsOk(card) => normalize_set(strip(card.value.set)) = card.value.set

\* C2: the raw records (set "promo-a", number "7") and (set "P-A", number
\* "007") both get the id "P-A-007".
C2_IdDeterminism ==
    (/\ IsOk(card)
     /\ \/ obj.set = spromodash \o <<"a">> /\ obj.number = <<"7">>
        \/ obj.set = sPdash \o <<"A">> /\ obj.number = <<"0","0","7">>)
    => card.value.id = sPA007

\* C3: for the same (set, number) input the canonicalizer and both sync
\* builders build the same id string.
C3_SharedNormalizer ==
    (/\ IsOk(card) /\ isdigit(obj.number)
     /\ IsOk(sync) /\ sCardDefKey \in DOMAIN sync.value
     /\ IsOk(mapping) /\ sCardDefKey \in DOMAIN mapping.value)
    => /\ sync.value[sCardDefKey] = card.value.id
       /\ mapping.value[sCardDefKey] = card.value.id


\* the entries of the batch that build_sync_map does not skip, for key k
ValidFor(k) ==
    {i \in 1..Len(ref_items) :
        /\ ref_items[i].cardDefKey = k
        /\ ~Falsy(ref_items[i].expansionId)}
First(S) == CHOOSE i \in S : \A j \in S : i <= j
NonA4B(k) == {i \in ValidFor(k) : normalize_expansion(ref_items[i].expansionId) # sA4B}
CandidateOf(i) == SyncLoop(Ok(EmptyDict), <<ref_items[i]>>).value[ref_items[i].cardDefKey]

\* C8: after a batch each key maps to the candidate of the first entry for
\* that key whose normalized expansion is not "A4B", if there is one, and
\* otherwise to the candidate of the first entry for that key.
C8_A4BDePreference ==
    IsOk(sync) =>
        \A k \in DOMAIN sync.value :
            sync.value[k] = IF NonA4B(k) # {} THEN CandidateOf(First(NonA4B(k)))
                            ELSE CandidateOf(First(ValidFor(k)))


\* ids of the non-skipped cards of an incoming batch
IncomingIds(new_cards) == {strip(c.id) : c \in Range(new_cards)} \ {sEmpty}
WithId(new_cards, X) == {i \in 1..Len(new_cards) : strip(new_cards[i].id) = X}
Last(S) == CHOOSE i \in S : \A j \in S : j <= i

\* C4: for every incoming card with id X the result maps X to the incoming
\* card when override is true, whatever existing held; when override is
\* false it maps X to the existing entry if existing has X, and to the
\* incoming card otherwise.  (Of several incoming cards with one id the
\* last is written under override and the first without.)
C4_MergeOverride ==
    [][pass' = "merge" =>
        \A X \in IncomingIds(serialized) :
            /\ X \in DOMAIN merged_map'
            /\ override =>
                 merged_map'[X] = serialized[Last(WithId(serialized, X))]
            /\ ~override /\ X \in DOMAIN existing_map =>
                 merged_map'[X] = existing_map[X]
            /\ ~override /\ X \notin DOMAIN existing_map =>
                 merged_map'[X] = serialized[First(WithId(serialized, X))]]_vars

C4_Witness ==
    /\ pass = "merge"
    /\ \E X \in IncomingIds(serialized) \cap DOMAIN existing_map :
         \/ override /\ merged_map[X] # existing_map[X]
         \/ ~override /\ merged_map[X] # serialized[First(WithId(serialized, X))]

\* C5: merge_cards never deletes: every id of existing is an id of the
\* result, an existing entry whose id is not in the incoming batch is in
\* the result unchanged, and the mapping handed in is the same after the
\* call as before it.
C5_MergeNeverDeletes ==
    [][pass' = "merge" =>
        /\ DOMAIN existing_map \subseteq DOMAIN merged_map'
        /\ \A k \in DOMAIN existing_map \ IncomingIds(serialized) :
             merged_map'[k] = existing_map[k]
        /\ existing_map' = existing_map]_vars

C5_Witness ==
    /\ pass = "merge"
    /\ IncomingIds(serialized) # {}
    /\ DOMAIN existing_map \ IncomingIds(serialized) # {}
    /\ DOMAIN existing_map \cap IncomingIds(serialized) # {}
    /\ merged_map # existing_map

\* C6: after every reconciliation pass no id is both in the persisted
\* MissingSet and the id of a Catalog card whose type is non-empty.
C6_NoTypedCardMissing ==
    pass \in {"scan", "enrich"} =>
        \A i \in 1..Len(cards) :
            strip(cards[i].type) # sEmpty => cards[i].id \notin missing

\* an update key matches a Catalog card: by its exact id, or by the key
\* with "PROMO-" replaced by "P-"
Matches(cs, cid) ==
    \E i \in 1..Len(cs) :
        cs[i].id = cid \/ cs[i].id = replace(cid, sPROMOdash, sPdash)

\* C7: an id leaves the persisted MissingSet only in an enrichment pass in
\* which that id produced a successful match against a Catalog card; a scan
\* pass never removes an id and adds only normalized ids of cards of its
\* batch; an enrichment pass keeps every id that was not fetched, not
\* parsed or not matched.
C7_MissingShrinksOnlyOnMatch ==
    [][/\ \A cid \in missing \ missing' :
            /\ pass' = "enrich"
            /\ cid \in DOMAIN updates'
            /\ Matches(cards, cid)
       /\ pass' = "scan" =>
            /\ missing \subseteq missing'
            /\ missing' \ missing \subseteq
                 {upper(replace(Canonical[raw_cards'[i]].id, sPROMOdash, sPdash)) :
                      i \in 1..Len(raw_cards')}
       /\ pass' = "enrich" =>
            \A cid \in missing :
                (cid \notin DOMAIN updates' \/ ~Matches(cards, cid)) => cid \in missing'
      ]_vars

C7_Witness ==
    /\ pass = "enrich"
    /\ updated_ids # {}
    /\ missing # {}
    /\ \E cid \in missing : cid \notin DOMAIN updates

\* the card an update key is applied to: the (last) card with exactly that
\* id, else the (last) card with the promo-normalized id, else none (0)
LastWithId(cs, k) == Last({i \in 1..Len(cs) : cs[i].id = k})
Target(cs, cid) ==
    IF \E i \in 1..Len(cs) : cs[i].id = cid THEN LastWithId(cs, cid)
    ELSE IF \E i \in 1..Len(cs) : cs[i].id = replace(cid, sPROMOdash, sPdash)
         THEN LastWithId(cs, replace(cid, sPROMOdash, sPdash))
    ELSE 0
Targeting(cs, upd, i) == {cid \in DOMAIN upd : Target(cs, cid) = i}
LastKey(S) == CHOOSE k \in S : \A j \in S \ {k} : StrLess(j, k)

\* C9: each update key is looked up by its exact id first and, only if
\* that misses, by the key with "PROMO-" replaced by "P-"; an update that
\* matches neither way is skipped: the pass goes on with the other
\* updates, no card is changed by it, and its key stays in the MissingSet.
C9_LookupExactThenNormalized ==
    [][pass' = "enrich" =>
        /\ Len(cards') = Len(cards)
        /\ \A cid \in DOMAIN updates' :
             IF Target(cards, cid) = 0
             THEN cid \in missing' /\ cid \notin updated_ids'
             ELSE cid \in updated_ids' /\ cid \notin missing'
        /\ \A i \in 1..Len(cards) :
             IF Targeting(cards, updates', i) = {}
             THEN cards'[i] = cards[i]
             ELSE cards'[i].type = updates'[LastKey(Targeting(cards, updates', i))].type
      ]_vars

C9_Witness ==
    /\ pass = "enrich"
    /\ \E cid \in DOMAIN updates : cid \notin updated_ids /\ cid \in missing
    /\ \E cid \in updated_ids :
         \E i \in 1..Len(cards) : cards[i].id = cid /\ cards[i].type = updates[cid].type

E2ERaw == Raw(sPROMOA, s7, sEmpty)
E2EUpdate == (sPA007 :> [type |-> sPokemon, element |-> sFire])
CardsWithId(cs, k) == {cs[i] : i \in {j \in 1..Len(cs) : cs[j].id = k}}

LastDash(s) ==
    IF \E i \in 1..Len(s) : s[i] = "-"
    THEN CHOOSE i \in 1..Len(s) : s[i] = "-" /\ \A j \in (i + 1)..Len(s) : s[j] # "-"
    ELSE 0

\* C16: the series of a card from_json produced is derived from its set: with
\* a "-" in the set, the first character after the last "-" (empty when
\* nothing follows it); without one, the first character of the set, empty
\* for the empty set.  So "P-A" gives "A", "A1" gives "A", "" gives "".
C16_SeriesDerivation ==
    IsOk(card) =>
        LET st == card.value.set
            sr == card.value.series
            d == LastDash(st)
        IN /\ d # 0 /\ d < Len(st) => sr = <<st[d + 1]>>
           /\ d # 0 /\ d = Len(st) => sr = sEmpty
           /\ d = 0 /\ Len(st) > 0 => sr = <<st[1]>>
           /\ Len(st) = 0 => sr = sEmpty
           /\ st = sPdash \o <<"A">> => sr = <<"A">>
           /\ st = sA1 => sr = <<"A">>

\* a card of a promo set, whose series comes from behind the separator
C16_Witness ==
    /\ IsOk(card)
    /\ card.value.set = sPdash \o <<"A">>
    /\ card.value.series = <<"A">>
    /\ obj.set # card.value.set

\* a card number without a digit canonicalizes to 0 and "000"
NoDigitsDefault ==
    IsOk(card) /\ digitsOf(obj.number) = sEmpty =>
        /\ card.value.number = 0
        /\ card.value.id = card.value.set \o sDash \o <<"0","0","0">>

\* C14: malformed input never fails a batch: a card number without digits
\* canonicalizes to 0 / "000", and build_sync_map and build_sync_mapping
\* return a mapping for every batch of reference entries, whatever their
\* location strings and keys look like.
C14_MalformedNeverFails ==
    /\ NoDigitsDefault
    /\ sync # NotRun => IsOk(sync)
    /\ mapping # NotRun => IsOk(mapping)

\* the reference entries build_sync_mapping does not skip
RefValid == {i \in 1..Len(ref_items) :
                ~Falsy(ref_items[i].cardDefKey) /\ ~Falsy(ref_items[i].url)}

\* the id derived from the location string of entry i
RefId(i) ==
    LET r == extract_set_and_number(ref_items[i].url)
    IN r.value.set_code \o sDash \o r.value.padded_num

\* the last valid entry that carries key k
LastRef(k) ==
    CHOOSE i \in RefValid :
        /\ ref_items[i].cardDefKey = k
        /\ \A j \in RefValid : ref_items[j].cardDefKey = k => j <= i

sA1010 == <<"A","1","-","0","1","0">>
sA4B010 == <<"A","4","B","-","0","1","0">>

\* C18: build_sync_mapping resolves a duplicated key by last-entry-wins, with
\* no A4B rule: the mapping it returns has the keys of the valid entries, and
\* each key maps to the id derived from the last valid entry carrying it
\* ("A1-010" then "A4B-010" ends as "A4B-010").
C18_LastEntryWins ==
    IsOk(mapping) =>
        /\ DOMAIN mapping.value = {ref_items[i].cardDefKey : i \in RefValid}
        /\ \A k \in DOMAIN mapping.value : mapping.value[k] = RefId(LastRef(k))
        /\ \A i \in RefValid, j \in RefValid :
              /\ i < j /\ ref_items[i].cardDefKey = sK1 /\ ref_items[j].cardDefKey = sK1
              /\ RefId(i) = sA1010 /\ RefId(j) = sA4B010
              /\ \A m \in RefValid : m <= j
              => mapping.value[sK1] = sA4B010

\* the batch "A1-010" then "A4B-010" for one key, mapped to "A4B-010"
C18_Witness ==
    /\ IsOk(mapping)
    /\ Len(ref_items) = 2
    /\ RefValid = {1, 2}
    /\ ref_items[1].cardDefKey = sK1 /\ ref_items[2].cardDefKey = sK1
    /\ RefId(1) = sA1010 /\ RefId(2) = sA4B010
    /\ mapping.value[sK1] = sA4B010

\* a str in canonical form: no "PROMO-" prefix, every letter uppercase
CanonStr(x) == upper(x) = x /\ ~startswith(x, sPROMOdash)

\* C12: load_existing_cards returns only canonical entries: for every stored
\* entry with a non-empty id, the returned key, the entry's id and the entry's
\* set are uppercase without a "PROMO-" prefix, so that loading what the
\* loader returned changes nothing.
C12_LoaderCanonical ==
    pass = "load" =>
        /\ \A k \in DOMAIN existing_map :
              /\ CanonStr(k)
              /\ CanonStr(existing_map[k].id)
              /\ CanonStr(existing_map[k].set)
        /\ load_existing_cards(SortedById(Values(existing_map))) = existing_map

\* every entry of the stored Catalog is canonical: a non-empty id, id and set
\* uppercase without a "PROMO-" prefix
AllCanonical(cs) ==
    \A i \in 1..Len(cs) :
        cs[i].id # sEmpty /\ CanonStr(cs[i].id) /\ CanonStr(cs[i].set)

\* C13: round trip: a stored Catalog whose entries are all canonical is read
\* back by load_existing_cards with the same keys and, under each key, a card
\* equal in every field.
C13_RoundTrip ==
    pass = "load" /\ AllCanonical(cards) =>
        /\ DOMAIN existing_map = {cards[i].id : i \in 1..Len(cards)}
        /\ \A i \in 1..Len(cards) : existing_map[cards[i].id] = cards[i]

\* the update keys applied to card i that carry an element
WithElement(cs, upd, i) == {cid \in Targeting(cs, upd, i) : upd[cid].element # None}

\* C17: the enrichment pass field-patches type and element only: a matched
\* card gets the type of the update applied to it (the last one, when several
\* keys find the same card) and an element only from an update that carries
\* one; every other field of a matched card, every unmatched card, the ids
\* of the Catalog and their persisted order stay as they were.
C17_EnrichPatchesTypeElementOnly ==
    [][pass' = "enrich" =>
        /\ Len(cards') = Len(cards)
        /\ \A i \in 1..Len(cards) :
             /\ [cards'[i] EXCEPT !.type = cards[i].type, !.element = cards[i].element]
                    = cards[i]
             /\ Targeting(cards, updates', i) = {} => cards'[i] = cards[i]
             /\ Targeting(cards, updates', i) # {} =>
                    cards'[i].type = updates'[LastKey(Targeting(cards, updates', i))].type
             /\ cards'[i].element =
                    IF WithElement(cards, updates', i) = {} THEN cards[i].element
                    ELSE updates'[LastKey(WithElement(cards, updates', i))].element
      ]_vars

\* an enrichment pass that patched the type of one card from an update
\* without element and left another card of the Catalog alone
C17_Witness ==
    /\ pass = "enrich"
    /\ Len(cards) >= 2
    /\ \E cid \in updated_ids :
         /\ updates[cid].element = None
         /\ \E i \in 1..Len(cards) :
              /\ cards[i].id = replace(cid, sPROMOdash, sPdash)
              /\ cards[i].type = updates[cid].type
              /\ cards[i].element # None
         /\ \E j \in 1..Len(cards) :
              /\ cards[j].id # replace(cid, sPROMOdash, sPdash)
              /\ cards[j].type # updates[cid].type

\* C15: the persisted Catalog is sorted by the id string, and that order is
\* numeric order within a set: of two persisted cards of one set the one with
\* the smaller card number comes first, also for numbers of more than three
\* digits.
C15_SortedNumericWithinSet ==
    pass = "scan" =>
        \A i \in 1..Len(cards), j \in 1..Len(cards) :
            i < j =>
                /\ StrLess(cards[i].id, cards[j].id)
                /\ cards[i].set = cards[j].set => cards[i].number <= cards[j].number

\* C11: re-running the pipeline on unchanged upstream data is idempotent:
\* from any persisted Catalog and MissingSet, the Catalog and the MissingSet
\* the second consecutive run persists equal, in order and in every field,
\* those the first run persisted.
C11_RerunIdempotent ==
    [][runs = 1 /\ runs' = 2 => cards' = cards /\ missing' = missing]_vars

====
